---- MODULE Spec2Model ----
(***************************************************************************)
(* Model of app.py, the Streamlit dashboard over the UK house price CSV.   *)
(* Streamlit runs the whole script top to bottom on every rerun; a rerun   *)
(* is triggered by a widget interaction.  One run is modelled as the       *)
(* sequence of its sections (pc), the widget state and the st.cache_data   *)
(* memo persist across runs.                                               *)
(***************************************************************************)
EXTENDS Integers, Sequences, FiniteSets, TLC

\* ---------------------------------------------------------------- bounds
MaxRows == 2        \* rows of the CSV files of the script specification
MaxReads == 3       \* cap on the read counter (guards the interactions)
MaxTopRows == 12    \* rows of the tables of the top-10 specification
MaxTie == 2         \* rows given a common price in those tables

\* ------------------------------------------------------ program constants
csv_path == "Average-prices-2025-06.csv"
TopN == 10
DefaultRegion == "United Kingdom"
DroppedColumn == "Average_Price_SA"
NaT == 0            \* pandas' missing timestamp; every real date is > 0

\* ------------------------------------------------------------ input sets
BaseColumns == {"Date", "Region_Name", "Average_Price"}
DateCells == {"2024-01-01", "2024-02-01", "", "not-a-date"}
Regions == {"United Kingdom", "united kingdom", "London"}
Prices == {1, 2}
RegionPool == <<"United Kingdom", "London", "York", "Leeds", "Bristol",
                "Cardiff", "Belfast", "Glasgow", "Oxford", "Exeter",
                "Durham", "Dundee", "Derby", "Luton">>

\* --------------------------------------------------------------- helpers
Range(s) == {s[i] : i \in DOMAIN s}
SeqsUpTo(S, n) == UNION {[1..k -> S] : k \in 0..n}
MinOf(a, b) == IF a < b THEN a ELSE b
MaxOfSet(S) == CHOOSE x \in S : \A y \in S : y <= x

RECURSIVE Perms(_)
Perms(S) ==
  IF S = {} THEN {<<>>}
  ELSE UNION {{<<x>> \o p : p \in Perms(S \ {x})} : x \in S}

\* ------------------------------------------------------- pandas operators
\* pd.to_datetime on one cell: an empty cell becomes NaT, a well-formed
\* date its timestamp; anything else raises.
IsMalformed(cell) == cell \notin {"", "2024-01-01", "2024-02-01"}
ParseDate(cell) ==
  CASE cell = "2024-01-01" -> 20240101
    [] cell = "2024-02-01" -> 20240201
    [] OTHER -> NaT

\* pd.read_csv: the frame gets a RangeIndex 0..n-1.
read_csv(f) ==
  [columns |-> f.columns,
   rows |-> [i \in 1..Len(f.rows) |->
               [index |-> i - 1,
                Date |-> f.rows[i].Date,
                Region_Name |-> f.rows[i].Region_Name,
                Average_Price |-> f.rows[i].Average_Price]]]

to_datetime(df) ==
  [df EXCEPT !.rows = [i \in DOMAIN df.rows |->
                         [df.rows[i] EXCEPT !.Date = ParseDate(@)]]]

dropKeep(df, col) == df
drop(df, col) == [df EXCEPT !.columns = @ \ {col}]

\* What load_data(csv_path) does on file f: the exception it raises, or "ok".
LoadOutcome(f) ==
  IF ~f.exists THEN "FileNotFoundError"
  ELSE IF \E i \in DOMAIN f.rows : IsMalformed(f.rows[i].Date)
       THEN "DateParseError"
  ELSE IF DroppedColumn \notin f.columns THEN "KeyError"
  ELSE "ok"

load_data(f) == drop(to_datetime(read_csv(f)), DroppedColumn)

EmptyDF == [columns |-> {}, rows |-> <<>>]

\* Series.unique(): distinct values in order of first occurrence.
RECURSIVE unique(_)
unique(s) ==
  IF s = <<>> THEN <<>>
  ELSE LET u == unique(SubSeq(s, 1, Len(s) - 1))
           x == s[Len(s)]
       IN IF x \in Range(u) THEN u ELSE Append(u, x)

RegionColumn(df) == [i \in DOMAIN df.rows |-> df.rows[i].Region_Name]

\* Comparison of two timestamps: NaT equals nothing, itself included.
DateEq(a, b) == a # NaT /\ b # NaT /\ a = b

\* Boolean-mask selection df[mask] keeps row order and the index labels.
RECURSIVE InsertByDate(_, _)
InsertByDate(s, row) ==
  IF s = <<>> THEN <<row>>
  ELSE IF s[Len(s)].Date <= row.Date THEN Append(s, row)
  ELSE Append(InsertByDate(SubSeq(s, 1, Len(s) - 1), row), s[Len(s)])

RECURSIVE SortByDate(_)
SortByDate(s) ==
  IF s = <<>> THEN <<>>
  ELSE InsertByDate(SortByDate(SubSeq(s, 1, Len(s) - 1)), s[Len(s)])

FilterByRegionSorted(df, r) ==
  LET Test(row) == row.Region_Name = r
  IN [df EXCEPT !.rows = SortByDate(SelectSeq(@, Test))]

FilterByRegionNoCase(df, r) ==
  LET Fold(x) == IF x = "united kingdom" THEN "United Kingdom" ELSE x
      Test(row) == Fold(row.Region_Name) = Fold(r)
  IN [df EXCEPT !.rows = SelectSeq(@, Test)]
FilterByRegion(df, r) ==
  LET Test(row) == row.Region_Name = r IN [df EXCEPT !.rows = SelectSeq(@, Test)]

RowsAtDateNaTEqual(df, d) ==
  LET Test(row) == row.Date = d IN [df EXCEPT !.rows = SelectSeq(@, Test)]
RowsAtDate(df, d) ==
  LET Test(row) == DateEq(row.Date, d) IN [df EXCEPT !.rows = SelectSeq(@, Test)]

\* Series.max(): skips NaT, NaT when nothing is left.
DateMin(df) ==
  LET ds == {df.rows[i].Date : i \in DOMAIN df.rows} \ {NaT}
  IN IF ds = {} THEN NaT ELSE CHOOSE x \in ds : \A y \in ds : x <= y
DateMax(df) ==
  LET ds == {df.rows[i].Date : i \in DOMAIN df.rows} \ {NaT}
  IN IF ds = {} THEN NaT ELSE MaxOfSet(ds)

\* sort_values(by='Average_Price', ascending=False) with the default
\* kind='quicksort', which is not a stable sort: rows of equal price come out
\* in an order the call does not fix.  DescOrders is the set of all the
\* position orders that are descending by price.
RECURSIVE DescOrders(_, _)
DescOrders(rows, levels) ==
  IF levels = {} THEN {<<>>}
  ELSE LET p == MaxOfSet(levels)
           G == {i \in DOMAIN rows : rows[i].Average_Price = p}
       IN UNION {{a \o b : b \in DescOrders(rows, levels \ {p})} :
                 a \in Perms(G)}

RECURSIVE AscOrders(_, _)
AscOrders(rows, levels) ==
  IF levels = {} THEN {<<>>}
  ELSE LET p == MaxOfSet(levels)
           G == {i \in DOMAIN rows : rows[i].Average_Price = p}
       IN UNION {{b \o a : b \in AscOrders(rows, levels \ {p})} :
                 a \in Perms(G)}

Reorder(df, o) == [df EXCEPT !.rows = [k \in 1..Len(o) |-> df.rows[o[k]]]]
PriceLevels(df) == {df.rows[i].Average_Price : i \in DOMAIN df.rows}

sort_values_ascending(df) ==
  {Reorder(df, o) : o \in AscOrders(df.rows, PriceLevels(df))}
sort_values(df) ==
  {Reorder(df, o) : o \in DescOrders(df.rows, PriceLevels(df))}

headAll(df, n) == df
head(df, n) == [df EXCEPT !.rows = SubSeq(@, 1, MinOf(n, Len(@)))]

\* DataFrame.describe(): the numeric columns, all the columns when there is
\* none.  A frame without rows has no numeric data column; whether the
\* datetime column counts as numeric depends on the pandas release.
describe(df, dateIsNumeric) ==
  LET num == {c \in df.columns :
                \/ c \in {"Average_Price", DroppedColumn} /\ Len(df.rows) > 0
                \/ c = "Date" /\ dateIsNumeric}
  IN IF num = {} THEN df.columns ELSE num

\* ----------------------------------------------------------------- state
VARIABLES
  file,             \* the CSV at csv_path, fixed for the process lifetime
  cache,            \* st.cache_data memo of load_data: {[path, table]}
  readCount,        \* times pd.read_csv has read the file
  checkbox,         \* widget state of "Show raw data"
  choice,           \* widget state of the selectbox, "" when untouched
  pc,               \* section the current run is at
  rendered,         \* elements the current run has put on the page
  exc,              \* uncaught exception of the current run, "" when none
  df_cleaned, summary, all_regions, selected_region, df_region,
  latest_date, df_latest, df_top_10

vars == <<file, cache, readCount, checkbox, choice, pc, rendered, exc,
          df_cleaned, summary, all_regions, selected_region, df_region,
          latest_date, df_latest, df_top_10>>

session == <<checkbox, choice>>
process == <<file, cache, readCount>>
results == <<df_cleaned, summary, all_regions, selected_region, df_region,
             latest_date, df_latest, df_top_10>>

RawRows == [Date : DateCells, Region_Name : Regions, Average_Price : Prices]
Files ==
  {[exists |-> FALSE, columns |-> {}, rows |-> <<>>]} \cup
  {[exists |-> TRUE, columns |-> BaseColumns \cup x, rows |-> r] :
     x \in SUBSET {DroppedColumn}, r \in SeqsUpTo(RawRows, MaxRows)}

FreshRun ==
  /\ pc = "load"
  /\ rendered = <<>>
  /\ exc = ""
  /\ df_cleaned = EmptyDF
  /\ summary = {}
  /\ all_regions = <<>>
  /\ selected_region = ""
  /\ df_region = EmptyDF
  /\ latest_date = NaT
  /\ df_latest = EmptyDF
  /\ df_top_10 = EmptyDF

Init ==
  /\ file \in Files
  /\ cache = {}
  /\ readCount = 0
  /\ checkbox = FALSE
  /\ choice = ""
  /\ FreshRun

\* ------------------------------------------------- the script, lines 28-32
Cached(p) == \E e \in cache : e.path = p
CacheGet(p) == (CHOOSE e \in cache : e.path = p).table

LoadCachedReread ==
  /\ pc = "load"
  /\ Cached(csv_path)
  /\ readCount' = readCount + 1
  /\ df_cleaned' = load_data(file)
  /\ pc' = "title"
  /\ UNCHANGED <<file, cache, session, rendered, exc, summary, all_regions,
                 selected_region, df_region, latest_date, df_latest,
                 df_top_10>>

\* st.cache_data hit: the memoized table, load_data's body does not run.
LoadCached ==
  /\ pc = "load"
  /\ Cached(csv_path)
  /\ df_cleaned' = CacheGet(csv_path)
  /\ pc' = "title"
  /\ UNCHANGED <<process, session, rendered, exc, summary, all_regions,
                 selected_region, df_region, latest_date, df_latest,
                 df_top_10>>

LoadNotFoundNoStop ==
  /\ pc = "load"
  /\ ~Cached(csv_path)
  /\ LoadOutcome(file) = "FileNotFoundError"
  /\ rendered' = Append(rendered, "error")
  /\ pc' = "title"
  /\ UNCHANGED <<process, session, exc, results>>

\* FileNotFoundError is caught: st.error, then st.stop ends the run.
LoadNotFound ==
  /\ pc = "load"
  /\ ~Cached(csv_path)
  /\ LoadOutcome(file) = "FileNotFoundError"
  /\ rendered' = Append(rendered, "error")
  /\ pc' = "stopped"
  /\ UNCHANGED <<process, session, exc, results>>

\* The file is read, then to_datetime or drop raises; nothing is memoized
\* and the exception is not caught by the script.
LoadRaises ==
  /\ pc = "load"
  /\ ~Cached(csv_path)
  /\ LoadOutcome(file) \in {"DateParseError", "KeyError"}
  /\ readCount' = readCount + 1
  /\ exc' = LoadOutcome(file)
  /\ pc' = "crashed"
  /\ UNCHANGED <<file, cache, session, rendered, results>>

LoadOk ==
  /\ pc = "load"
  /\ ~Cached(csv_path)
  /\ LoadOutcome(file) = "ok"
  /\ readCount' = readCount + 1
  /\ cache' = cache \cup {[path |-> csv_path, table |-> load_data(file)]}
  /\ df_cleaned' = load_data(file)
  /\ pc' = "title"
  /\ UNCHANGED <<file, session, rendered, exc, summary, all_regions,
                 selected_region, df_region, latest_date, df_latest,
                 df_top_10>>

LoadStep == LoadCached \/ LoadNotFound \/ LoadRaises \/ LoadOk

\* ------------------------------------------------------------ lines 38-39
TitleStep ==
  /\ pc = "title"
  /\ rendered' = rendered \o <<"title", "intro">>
  /\ pc' = "overview"
  /\ UNCHANGED <<process, session, exc, results>>

\* ------------------------------------------------------------ lines 42-47
OverviewStep ==
  /\ pc = "overview"
  /\ rendered' = rendered \o <<"header1", "checkbox">> \o
                 (IF checkbox THEN <<"shape", "dataframe">> ELSE <<>>)
  /\ pc' = "summary"
  /\ UNCHANGED <<process, session, exc, results>>

\* ------------------------------------------------------------ lines 50-52
SummaryStep ==
  /\ pc = "summary"
  /\ \E dateIsNumeric \in BOOLEAN :
       summary' = describe(df_cleaned, dateIsNumeric)
  /\ rendered' = rendered \o <<"subheader1", "describe">>
  /\ pc' = "select"
  /\ UNCHANGED <<process, session, exc, df_cleaned, all_regions,
                 selected_region, df_region, latest_date, df_latest,
                 df_top_10>>

\* ------------------------------------------------------------ lines 56-66
\* list.index raises ValueError when "United Kingdom" is not a region of
\* the table; the selectbox is then never created.
SelectRaises ==
  /\ pc = "select"
  /\ DefaultRegion \notin Range(unique(RegionColumn(df_cleaned)))
  /\ all_regions' = unique(RegionColumn(df_cleaned))
  /\ rendered' = Append(rendered, "header2")
  /\ exc' = "ValueError"
  /\ pc' = "crashed"
  /\ UNCHANGED <<process, session, df_cleaned, summary, selected_region,
                 df_region, latest_date, df_latest, df_top_10>>

SelectOk ==
  /\ pc = "select"
  /\ DefaultRegion \in Range(unique(RegionColumn(df_cleaned)))
  /\ all_regions' = unique(RegionColumn(df_cleaned))
  /\ selected_region' = IF choice = "" THEN DefaultRegion ELSE choice
  /\ rendered' = rendered \o <<"header2", "selectbox">>
  /\ pc' = "region"
  /\ UNCHANGED <<process, session, exc, df_cleaned, summary, df_region,
                 latest_date, df_latest, df_top_10>>

SelectStep == SelectRaises \/ SelectOk

\* ------------------------------------------------------------ lines 69-86
RegionStepReassign ==
  /\ pc = "region"
  /\ df_region' = FilterByRegion(df_cleaned, selected_region)
  /\ df_cleaned' = df_region'
  /\ rendered' = rendered \o <<"subheader2", "line_chart">>
  /\ pc' = "latest"
  /\ UNCHANGED <<process, session, exc, summary, all_regions,
                 selected_region, latest_date, df_latest, df_top_10>>

RegionStep ==
  /\ pc = "region"
  /\ df_region' = FilterByRegion(df_cleaned, selected_region)
  /\ rendered' = rendered \o <<"subheader2", "line_chart">>
  /\ pc' = "latest"
  /\ UNCHANGED <<process, session, exc, df_cleaned, summary, all_regions,
                 selected_region, latest_date, df_latest, df_top_10>>

\* ------------------------------------------------------------ lines 90-98
\* NaT.date() is NaT: the subheader is written whatever the maximum is.
LatestStep ==
  /\ pc = "latest"
  /\ latest_date' = DateMax(df_cleaned)
  /\ df_latest' = RowsAtDate(df_cleaned, DateMax(df_cleaned))
  /\ rendered' = rendered \o <<"header3", "subheader3">>
  /\ pc' = "top10"
  /\ UNCHANGED <<process, session, exc, df_cleaned, summary, all_regions,
                 selected_region, df_region, df_top_10>>

\* ---------------------------------------------------------- lines 101-117
Top10Step ==
  /\ pc = "top10"
  /\ \E sorted \in sort_values(df_latest) : df_top_10' = head(sorted, TopN)
  /\ rendered' = Append(rendered, "bar_chart")
  /\ pc' = "done"
  /\ UNCHANGED <<process, session, exc, df_cleaned, summary, all_regions,
                 selected_region, df_region, latest_date, df_latest>>

\* ------------------------------------------------- reruns (Streamlit)
\* A widget interaction changes the widget's state and reruns the script
\* from the top; the widget must be on the page of the finished run.
Idle == pc \in {"done", "stopped", "crashed"}

Rerun ==
  /\ pc' = "load"
  /\ rendered' = <<>>
  /\ exc' = ""
  /\ df_cleaned' = EmptyDF
  /\ summary' = {}
  /\ all_regions' = <<>>
  /\ selected_region' = ""
  /\ df_region' = EmptyDF
  /\ latest_date' = NaT
  /\ df_latest' = EmptyDF
  /\ df_top_10' = EmptyDF

ToggleCheckbox ==
  /\ Idle
  /\ readCount < MaxReads
  /\ "checkbox" \in Range(rendered)
  /\ checkbox' = ~checkbox
  /\ Rerun
  /\ UNCHANGED <<process, choice>>

SelectRegion ==
  /\ Idle
  /\ readCount < MaxReads
  /\ "selectbox" \in Range(rendered)
  /\ \E r \in Range(all_regions) :
       /\ r # selected_region
       /\ choice' = r
  /\ Rerun
  /\ UNCHANGED <<process, checkbox>>

Next ==
  \/ LoadStep
  \/ TitleStep
  \/ OverviewStep
  \/ SummaryStep
  \/ SelectStep
  \/ RegionStep
  \/ LatestStep
  \/ Top10Step
  \/ ToggleCheckbox
  \/ SelectRegion

Spec == Init /\ [][Next]_vars

\* --------------------------------------------- the query layer on its own
\* The latest-date and top-10 queries (lines 93-101) applied to any loaded
\* table.  The files have up to MaxTopRows rows, prices 1..n in file order
\* except that the rows lo..hi (at most MaxTie of them) share the price tp,
\* and at most one row (the first or the last) of an earlier date.
TopFile(n, tied, tp, old) ==
  [exists |-> TRUE,
   columns |-> BaseColumns \cup {DroppedColumn},
   rows |-> [i \in 1..n |->
               [Date |-> IF i \in old THEN "2024-01-01" ELSE "2024-02-01",
                Region_Name |-> RegionPool[((i - 1) % Len(RegionPool)) + 1],
                Average_Price |-> IF i \in tied THEN tp ELSE i]]]

TieRanges(n) ==
  {T \in {lo..hi : lo \in 1..n, hi \in 0..n} : Cardinality(T) <= MaxTie}

TopFiles ==
  UNION {UNION {{TopFile(n, tied, tp, old) :
                   tp \in 1..n, old \in {{}, {1}, {n}}} :
                tied \in TieRanges(n)} :
         n \in 1..MaxTopRows}

QueryFiles == TopFiles \cup {f \in Files : LoadOutcome(f) = "ok"}

InitQuery ==
  /\ file \in QueryFiles
  /\ cache = {[path |-> csv_path, table |-> load_data(file)]}
  /\ readCount = 1
  /\ checkbox = FALSE
  /\ choice = ""
  /\ pc = "latest"
  /\ rendered = <<"title", "intro", "header1", "checkbox", "subheader1",
                  "describe", "header2", "selectbox", "subheader2",
                  "line_chart">>
  /\ exc = ""
  /\ df_cleaned = load_data(file)
  /\ summary = describe(load_data(file), TRUE)
  /\ all_regions = unique(RegionColumn(load_data(file)))
  /\ selected_region = DefaultRegion
  /\ df_region = FilterByRegion(load_data(file), DefaultRegion)
  /\ latest_date = NaT
  /\ df_latest = EmptyDF
  /\ df_top_10 = EmptyDF

NextQuery ==
  \/ LatestStep
  \/ Top10Step

SpecQuery == InitQuery /\ [][NextQuery]_vars

\* ================================================================ claims
Loaded == cache # {} /\ pc # "load"
AfterRegion == pc \in {"latest", "top10", "done"}
AfterLatest == pc \in {"top10", "done"}
RowsOf(df) == Range(df.rows)

\* C1: when the CSV file does not exist, the run shows the error message and
\* halts: nothing but the error is rendered, no later section is reached and
\* no exception is left uncaught.
C1_MissingFileHalts ==
  ~file.exists =>
    /\ pc \in {"load", "stopped"}
    /\ exc = ""
    /\ Range(rendered) \subseteq {"error"}
    /\ (pc = "stopped" <=> rendered = <<"error">>)

C1_Witness == ~file.exists /\ pc = "stopped" /\ rendered = <<"error">>

\* A well-formed file that has the three base columns and no Average_Price_SA.
NoSAFile ==
  /\ file.exists
  /\ BaseColumns \subseteq file.columns
  /\ DroppedColumn \notin file.columns
  /\ \A i \in DOMAIN file.rows : ~IsMalformed(file.rows[i].Date)

\* C2 as stated: load on a file without the Average_Price_SA column completes
\* without error and returns a table without that column.
C2_Original ==
  (NoSAFile /\ pc # "load") =>
    /\ exc = ""
    /\ cache # {}
    /\ df_cleaned.columns = BaseColumns

\* C2 amended: load on a file without the Average_Price_SA column raises
\* KeyError and returns no table (nothing is memoized, nothing rendered);
\* whenever load does return a table, Average_Price_SA is absent from it and
\* from the summary statistics.
C2_DropRaisesOrRemoves ==
  /\ (NoSAFile /\ pc # "load") =>
       /\ pc = "crashed"
       /\ exc = "KeyError"
       /\ cache = {}
       /\ df_cleaned = EmptyDF
       /\ rendered = <<>>
  /\ \A e \in cache : DroppedColumn \notin e.table.columns
  /\ DroppedColumn \notin df_cleaned.columns
  /\ DroppedColumn \notin summary

C2_Witness == NoSAFile /\ pc = "crashed" /\ exc = "KeyError" /\ readCount = 1

\* C3: across reruns triggered by the checkbox and the region selector the
\* file is read at most once; once a load has succeeded, every later load
\* returns the memoized table without reading the file.
C3_ReadAtMostOnce ==
  /\ readCount <= 1
  /\ cache # {} => readCount = 1
  /\ Loaded => df_cleaned = CacheGet(csv_path)

C3_Witness ==
  /\ Loaded
  /\ pc = "title"
  /\ checkbox
  /\ choice # ""
  /\ readCount = 1

\* C4: after load has returned, the table (rows, row order, columns) stays
\* the one load returned, through every section and every interaction.
C4_TableImmutable ==
  cache # {} =>
    /\ cache = {[path |-> csv_path, table |-> load_data(file)]}
    /\ pc # "load" => df_cleaned = load_data(file)

C4_Witness ==
  /\ pc = "done"
  /\ checkbox
  /\ choice \notin {"", DefaultRegion}
  /\ Len(df_top_10.rows) = 2
  /\ df_top_10.rows # df_latest.rows
  /\ Len(df_region.rows) = 1

\* The rows of the table at its latest date.
RowsAtLatest ==
  {r \in RowsOf(df_cleaned) : r.Date # NaT /\ r.Date = latest_date}
LeftOut == RowsAtLatest \ RowsOf(df_top_10)

\* C5: the top-10 slice has exactly min(10, rows at the latest date) records,
\* each a distinct row at the latest date, in non-increasing price order, and
\* no row left out has a higher price than a row kept.
C5_TopTen ==
  pc = "done" =>
    LET top == df_top_10.rows IN
    /\ Len(top) = MinOf(TopN, Cardinality(RowsAtLatest))
    /\ \A k \in DOMAIN top : top[k] \in RowsAtLatest
    /\ \A j, k \in DOMAIN top :
         j < k => /\ top[j].index # top[k].index
                  /\ top[j].Average_Price >= top[k].Average_Price
    /\ \A r \in LeftOut : \A k \in DOMAIN top :
         r.Average_Price <= top[k].Average_Price

C5_Witness ==
  /\ pc = "done"
  /\ Cardinality(RowsAtLatest) > TopN
  /\ Len(df_top_10.rows) = TopN
  /\ Len(df_cleaned.rows) > Cardinality(RowsAtLatest)
  /\ \E r \in LeftOut : r.Average_Price = df_top_10.rows[TopN].Average_Price

\* C6 as stated: rows of equal price come out in their original row order,
\* and at the cut-off the tied rows kept are the first of the input.
C6_Original ==
  pc = "done" =>
    LET top == df_top_10.rows IN
    /\ \A j, k \in DOMAIN top :
         (j < k /\ top[j].Average_Price = top[k].Average_Price)
           => top[j].index < top[k].index
    /\ \A r \in LeftOut : \A k \in DOMAIN top :
         r.Average_Price = top[k].Average_Price => top[k].index < r.index

\* C6 amended: the sort fixes the order of rows of different price only (the
\* higher price first); of the rows of one price the slice keeps as many as
\* fit after all the higher-priced rows, and which of them it keeps and in
\* what order is not fixed.
C6_TiesUnordered ==
  pc = "done" =>
    LET top == df_top_10.rows
        Higher(p) == {r \in RowsAtLatest : r.Average_Price > p}
        Same(p) == {r \in RowsAtLatest : r.Average_Price = p}
        Room(p) == IF Cardinality(Higher(p)) >= TopN THEN 0
                   ELSE TopN - Cardinality(Higher(p))
    IN
    /\ \A j, k \in DOMAIN top :
         (j < k /\ top[j].Average_Price # top[k].Average_Price)
           => top[j].Average_Price > top[k].Average_Price
    /\ \A r \in RowsAtLatest :
         Cardinality(Same(r.Average_Price) \cap RowsOf(df_top_10)) =
           MinOf(Room(r.Average_Price), Cardinality(Same(r.Average_Price)))

C6_Witness ==
  /\ pc = "done"
  /\ \E r \in LeftOut : \E k \in DOMAIN df_top_10.rows :
       /\ r.Average_Price = df_top_10.rows[k].Average_Price
       /\ r.index < df_top_10.rows[k].index

ValidDated == {r \in RowsOf(df_cleaned) : r.Date # NaT}
\* The run has gone through the latest-date query of section 3.
LatestQueried == "line_chart" \in Range(rendered) /\ pc # "latest"

DatesPresent == {r.Date : r \in RowsOf(df_cleaned)}
Slice(d) == RowsOf(RowsAtDate(df_cleaned, d))
InOrder(rows) ==
  \A j, k \in DOMAIN rows : j < k => rows[j].index < rows[k].index

\* C8 as stated: the slices of the dates present partition the loaded table,
\* every retained row having a valid parsed Date.
C8_Original ==
  Loaded =>
    /\ \A d \in DatesPresent :
         Slice(d) = {r \in RowsOf(df_cleaned) : r.Date = d}
    /\ \A r \in RowsOf(df_cleaned) :
         Cardinality({d \in DatesPresent : r \in Slice(d)}) = 1
    /\ \A r \in RowsOf(df_cleaned) : r.Date # NaT

\* C8 amended: for every valid date d of the table the slice is exactly the
\* rows of Date d, in row order, and the slices partition the rows that have
\* a valid Date; a row whose Date cell is empty is retained with Date NaT and
\* lies in no slice.
C8_SlicesPartitionValid ==
  Loaded =>
    /\ \A d \in DatesPresent \ {NaT} :
         /\ Slice(d) = {r \in RowsOf(df_cleaned) : r.Date = d}
         /\ InOrder(RowsAtDate(df_cleaned, d).rows)
         /\ Len(RowsAtDate(df_cleaned, d).rows) = Cardinality(Slice(d))
    /\ \A r \in ValidDated :
         Cardinality({d \in DatesPresent : r \in Slice(d)}) = 1
    /\ \A r \in RowsOf(df_cleaned) \ ValidDated :
         \A d \in DatesPresent : r \notin Slice(d)
    /\ Len(df_cleaned.rows) = Len(file.rows)
    /\ AfterLatest => RowsOf(df_latest) = RowsAtLatest

C8_Witness ==
  /\ pc = "top10"
  /\ ValidDated # {}
  /\ RowsOf(df_cleaned) \ ValidDated # {}
  /\ df_latest.rows # <<>>

\* C9 as stated: the slice handed to the line chart is in ascending Date
\* order whatever the order of the rows in the file.
C9_Original ==
  AfterRegion =>
    \A j, k \in DOMAIN df_region.rows :
      (j < k /\ df_region.rows[j].Date # NaT /\ df_region.rows[k].Date # NaT)
        => df_region.rows[j].Date <= df_region.rows[k].Date

\* C9 amended: the slice lists the selected region's (Date, Average_Price)
\* pairs in the order of the region's rows in the source file, so it is
\* ascending by Date only when the file is.
C9_SliceInFileOrder ==
  AfterRegion =>
    LET OfRegion(raw) == raw.Region_Name = selected_region
        src == SelectSeq(file.rows, OfRegion)
    IN /\ Len(df_region.rows) = Len(src)
       /\ \A k \in DOMAIN src :
            /\ df_region.rows[k].Date = ParseDate(src[k].Date)
            /\ df_region.rows[k].Average_Price = src[k].Average_Price
            /\ df_region.rows[k].Region_Name = selected_region

C9_Witness ==
  /\ pc = "latest"
  /\ Len(df_region.rows) = 2
  /\ df_region.rows[2].Date # NaT
  /\ df_region.rows[1].Date > df_region.rows[2].Date

RegionArgs == Regions \cup {"Nonexistent", "UNITED KINGDOM"}
IsRegionSlice(res, df, r) ==
  /\ res.columns = df.columns
  /\ RowsOf(res) = {row \in RowsOf(df) : row.Region_Name = r}
  /\ InOrder(res.rows)
  /\ (\A row \in RowsOf(df) : row.Region_Name # r) => res.rows = <<>>

\* C10: filtering by region returns exactly the rows whose Region_Name is
\* the given name (exact, case-sensitive), in their original order, and an
\* empty table (no error) when no row matches.
C10_FilterByRegion ==
  /\ AfterRegion => IsRegionSlice(df_region, df_cleaned, selected_region)
  /\ Loaded => \A r \in RegionArgs :
                 IsRegionSlice(FilterByRegion(df_cleaned, r), df_cleaned, r)

C10_Witness ==
  /\ pc = "latest"
  /\ exc = ""
  /\ selected_region = DefaultRegion
  /\ \E row \in RowsOf(df_cleaned) : row.Region_Name = "united kingdom"
  /\ Len(df_region.rows) = 1
  /\ FilterByRegion(df_cleaned, "Nonexistent").rows = <<>>

====
